---- MODULE Spec2Model ----
(***************************************************************************)
(* Model of backend/utils.py of the recipe chatbot: get_agent_response,    *)
(* the wrapper that puts the system prompt in front of a conversation,     *)
(* sends the conversation to litellm.completion and returns it extended    *)
(* by the assistant's reply.                                               *)
(*                                                                         *)
(* A text is a sequence of one-character strings, a Turn is a record       *)
(* [role, content], a conversation is a sequence of Turns.  Python lists   *)
(* are objects: the caller's list (messages), the list built on line 116   *)
(* (new_list) and the list built on line 131 (updated_messages) are kept   *)
(* apart, and current_messages is a reference to one of the first two.     *)
(***************************************************************************)
EXTENDS Integers, Sequences, FiniteSets, TLC

VARIABLES
    SYSTEM_PROMPT,            \* module global, line 20
    MODEL_NAME,               \* module global, line 92
    pc,                       \* per invocation: the line it stands at
    input,                    \* per invocation: the argument as it was passed
    messages,                 \* per invocation: the caller's list object, as it is now
    current_messages,         \* per invocation: "unbound", "messages" (line 118) or "new" (line 116)
    new_list,                 \* per invocation: the list object built on line 116
    sent,                     \* per invocation: the requests issued to litellm.completion
    upstream,                 \* per invocation: what litellm.completion did (raise or return)
    completion,               \* per invocation: local variable of line 120
    assistant_reply_content,  \* per invocation: local variable of line 125
    updated_messages,         \* per invocation: the list object built on line 131
    result,                   \* per invocation: the value returned to the caller
    exception,                \* per invocation: the exception that left the function
    round,                    \* caller: number of the round of its dialogue
    previous                  \* caller: the output of the previous round

vars == <<SYSTEM_PROMPT, MODEL_NAME, pc, input, messages, current_messages,
          new_list, sent, upstream, completion, assistant_reply_content,
          updated_messages, result, exception, round, previous>>

globals == <<SYSTEM_PROMPT, MODEL_NAME>>

-----------------------------------------------------------------------------
(* Bounds *)

NumCalls     == 2   \* concurrent invocations
MaxTurns     == 2   \* Turns of a conversation passed by a caller
MaxText      == 3   \* characters of a text returned upstream
MaxRounds    == 3   \* rounds of a dialogue

-----------------------------------------------------------------------------
(* Values *)

Calls == 1..NumCalls

Chars == {" ", "\n", "a"}

\* the characters str.strip() removes that occur in Chars and in the prompt
Whitespace == {" ", "\n", "\t", "\r"}

Roles == {"system", "user", "assistant"}

\* The prompt of lines 22-89, shortened: it starts with a newline and ends
\* with two, as the literal does.
InstructionText == <<"\n", "#", "\n", "\n">>

\* "I cannot help with this request." (line 87), shortened
RefusalText == <<"I", " ", "c">>

DefaultModel == <<"gpt-4o-mini">>

\* os.environ, as far as line 92 reads it: MODEL_NAME unset or set
Environments == { <<>>, <<"gpt-4o">> }

ModelNameFromEnv(env) == IF env = <<>> THEN DefaultModel[1] ELSE env[1]

None == <<>>
Some(v) == <<v>>

RECURSIVE SeqsUpTo(_, _)
SeqsUpTo(S, n) ==
    IF n = 0 THEN { <<>> }
    ELSE LET shorter == SeqsUpTo(S, n - 1)
         IN  shorter \cup { Append(s, e) : s \in { t \in shorter : Len(t) = n - 1 }, e \in S }

Turn(r, t) == [role |-> r, content |-> t]

\* the texts of the Turns a caller passes: one with leading whitespace, and
\* the prompt itself
InputTexts == { <<" ", "a">>, InstructionText }

Turns == { Turn(r, t) : r \in Roles, t \in InputTexts }

Inputs == SeqsUpTo(Turns, MaxTurns)

ReplyTexts == SeqsUpTo(Chars, MaxText) \cup {RefusalText}

\* What litellm.completion can do: raise, or return an object that the
\* subscripts of line 126 are applied to.
Raise(e) == [raises |-> TRUE, error |-> e]
Return(v) == [raises |-> FALSE, value |-> v]

StrContent(t) == <<"str", t>>
NoneContent == <<"NoneType">>

WithContent(c) == [choices |-> <<[message |-> [role |-> "assistant", content |-> c]]>>]

Malformed ==
    { [choices |-> <<>>],
      [choices |-> <<[index |-> 0]>>],
      [choices |-> <<[message |-> [role |-> "assistant"]]>>],
      WithContent(NoneContent) }

UpstreamErrors == {"APIConnectionError", "RateLimitError"}

Responses ==
    { Raise(e) : e \in UpstreamErrors }
    \cup { Return(v) : v \in Malformed }
    \cup { Return(WithContent(StrContent(t))) : t \in ReplyTexts }

-----------------------------------------------------------------------------
(* str.strip() *)

RECURSIVE LStrip(_)
LStrip(s) ==
    IF s = <<>> THEN s
    ELSE IF Head(s) \in Whitespace THEN LStrip(Tail(s)) ELSE s

RECURSIVE RStrip(_)
RStrip(s) ==
    IF s = <<>> THEN s
    ELSE IF s[Len(s)] \in Whitespace THEN RStrip(SubSeq(s, 1, Len(s) - 1)) ELSE s

\* str.lstrip() in the place of str.strip()
StripLeading(s) == LStrip(s)

Strip(s) == RStrip(LStrip(s))

-----------------------------------------------------------------------------
(* get_agent_response *)

\* the list current_messages refers to
CurrentMessages(c) ==
    IF current_messages[c] = "messages" THEN messages[c] ELSE new_list[c]

\* line 115 without its test for the empty list
NeedsPromptNonEmpty(m) == m # <<>> /\ m[1].role # "system"

\* line 115 testing for the prompt itself instead of the role
NeedsPromptForeign(m) == m = <<>> \/ m[1] # Turn("system", SYSTEM_PROMPT)

\* line 115 looking at the last Turn instead of the first
NeedsPromptLast(m) == m = <<>> \/ m[Len(m)].role # "system"

\* line 115
NeedsPrompt(m) == m = <<>> \/ m[1].role # "system"

Init ==
    /\ SYSTEM_PROMPT = InstructionText
    /\ \E env \in Environments : MODEL_NAME = ModelNameFromEnv(env)
    /\ pc = [c \in Calls |-> "idle"]
    /\ input = [c \in Calls |-> <<>>]
    /\ messages = [c \in Calls |-> <<>>]
    /\ current_messages = [c \in Calls |-> "unbound"]
    /\ new_list = [c \in Calls |-> None]
    /\ sent = [c \in Calls |-> <<>>]
    /\ upstream = [c \in Calls |-> None]
    /\ completion = [c \in Calls |-> None]
    /\ assistant_reply_content = [c \in Calls |-> None]
    /\ updated_messages = [c \in Calls |-> None]
    /\ result = [c \in Calls |-> None]
    /\ exception = [c \in Calls |-> None]
    /\ round = [c \in Calls |-> 0]
    /\ previous = [c \in Calls |-> <<>>]

\* the frame of a fresh invocation by caller c with the list m
Enter(c, m) ==
    /\ input' = [input EXCEPT ![c] = m]
    /\ messages' = [messages EXCEPT ![c] = m]
    /\ pc' = [pc EXCEPT ![c] = "l115"]
    /\ current_messages' = [current_messages EXCEPT ![c] = "unbound"]
    /\ new_list' = [new_list EXCEPT ![c] = None]
    /\ sent' = [sent EXCEPT ![c] = <<>>]
    /\ upstream' = [upstream EXCEPT ![c] = None]
    /\ completion' = [completion EXCEPT ![c] = None]
    /\ assistant_reply_content' = [assistant_reply_content EXCEPT ![c] = None]
    /\ updated_messages' = [updated_messages EXCEPT ![c] = None]
    /\ result' = [result EXCEPT ![c] = None]
    /\ exception' = [exception EXCEPT ![c] = None]
    /\ UNCHANGED globals

\* A caller calls get_agent_response(m): the first round of a dialogue.
Call(c, m) ==
    /\ pc[c] = "idle"
    /\ Enter(c, m)
    /\ round' = [round EXCEPT ![c] = 1]
    /\ previous' = [previous EXCEPT ![c] = <<>>]

\* A caller whose invocation has ended, with a value or with an exception,
\* calls get_agent_response(m) with another conversation.
CallAgain(c, m) ==
    /\ pc[c] \in {"done", "failed"}
    /\ Enter(c, m)
    /\ round' = [round EXCEPT ![c] = 1]
    /\ previous' = [previous EXCEPT ![c] = <<>>]

\* The caller appends one user Turn to the previous output and calls again.
FollowUp(c, t) ==
    /\ pc[c] = "done"
    /\ round[c] < MaxRounds
    /\ Enter(c, result[c][1] \o <<Turn("user", t)>>)
    /\ round' = [round EXCEPT ![c] = round[c] + 1]
    /\ previous' = [previous EXCEPT ![c] = result[c][1]]

\* lines 114-118 with the prompt put in front of every conversation
NormalizeAlways(c) ==
    /\ pc[c] = "l115"
    /\ new_list' = [new_list EXCEPT ![c] =
           <<Turn("system", SYSTEM_PROMPT)>> \o messages[c]]
    /\ current_messages' = [current_messages EXCEPT ![c] = "new"]
    /\ pc' = [pc EXCEPT ![c] = "l120"]
    /\ UNCHANGED <<globals, input, messages, sent, upstream, completion,
                   assistant_reply_content, updated_messages, result,
                   exception, round, previous>>

\* lines 114-118 with a caller's system text kept as the module's prompt
NormalizeRemembering(c) ==
    /\ pc[c] = "l115"
    /\ IF NeedsPrompt(messages[c])
       THEN /\ new_list' = [new_list EXCEPT ![c] =
                   <<Turn("system", SYSTEM_PROMPT)>> \o messages[c]]
            /\ current_messages' = [current_messages EXCEPT ![c] = "new"]
            /\ UNCHANGED SYSTEM_PROMPT
       ELSE /\ current_messages' = [current_messages EXCEPT ![c] = "messages"]
            /\ SYSTEM_PROMPT' = messages[c][1].content
            /\ UNCHANGED new_list
    /\ pc' = [pc EXCEPT ![c] = "l120"]
    /\ UNCHANGED <<MODEL_NAME, input, messages, sent, upstream, completion,
                   assistant_reply_content, updated_messages, result,
                   exception, round, previous>>

\* lines 114-118
Normalize(c) ==
    /\ pc[c] = "l115"
    /\ IF NeedsPrompt(messages[c])
       THEN /\ new_list' = [new_list EXCEPT ![c] =
                   <<Turn("system", SYSTEM_PROMPT)>> \o messages[c]]
            /\ current_messages' = [current_messages EXCEPT ![c] = "new"]
       ELSE /\ current_messages' = [current_messages EXCEPT ![c] = "messages"]
            /\ UNCHANGED new_list
    /\ pc' = [pc EXCEPT ![c] = "l120"]
    /\ UNCHANGED <<globals, input, messages, sent, upstream, completion,
                   assistant_reply_content, updated_messages, result,
                   exception, round, previous>>

\* lines 120-123, the call: the request leaves and the invocation blocks
Request(c) ==
    /\ pc[c] = "l120"
    /\ sent' = [sent EXCEPT ![c] =
           Append(sent[c], [model |-> MODEL_NAME, messages |-> CurrentMessages(c)])]
    /\ pc' = [pc EXCEPT ![c] = "blocked"]
    /\ UNCHANGED <<globals, input, messages, current_messages, new_list,
                   upstream, completion, assistant_reply_content,
                   updated_messages, result, exception, round, previous>>

\* lines 120-123 in a try block whose handler goes on with an empty reply
RespondWithFallback(c, r) ==
    /\ pc[c] = "blocked"
    /\ upstream' = [upstream EXCEPT ![c] = Some(r)]
    /\ completion' = [completion EXCEPT ![c] =
           Some(IF r.raises THEN WithContent(StrContent(<<>>)) ELSE r.value)]
    /\ pc' = [pc EXCEPT ![c] = "l125"]
    /\ UNCHANGED <<globals, input, messages, current_messages, new_list, sent,
                   assistant_reply_content, updated_messages, result,
                   exception, round, previous>>

\* lines 120-123 in a loop that sends the request once more after a failure
RespondWithRetry(c, r) ==
    /\ pc[c] = "blocked"
    /\ IF r.raises /\ Len(sent[c]) < 2
       THEN /\ sent' = [sent EXCEPT ![c] =
                   Append(sent[c], [model |-> MODEL_NAME, messages |-> CurrentMessages(c)])]
            /\ UNCHANGED <<upstream, exception, completion, pc>>
       ELSE /\ upstream' = [upstream EXCEPT ![c] = Some(r)]
            /\ UNCHANGED sent
            /\ IF r.raises
               THEN /\ exception' = [exception EXCEPT ![c] = Some(r.error)]
                    /\ pc' = [pc EXCEPT ![c] = "failed"]
                    /\ UNCHANGED completion
               ELSE /\ completion' = [completion EXCEPT ![c] = Some(r.value)]
                    /\ pc' = [pc EXCEPT ![c] = "l125"]
                    /\ UNCHANGED exception
    /\ UNCHANGED <<globals, input, messages, current_messages, new_list,
                   assistant_reply_content, updated_messages, result,
                   round, previous>>

\* lines 120-123, the return: litellm.completion raises, and the exception
\* leaves get_agent_response, or it returns a value, bound to completion
Respond(c, r) ==
    /\ pc[c] = "blocked"
    /\ upstream' = [upstream EXCEPT ![c] = Some(r)]
    /\ IF r.raises
       THEN /\ exception' = [exception EXCEPT ![c] = Some(r.error)]
            /\ pc' = [pc EXCEPT ![c] = "failed"]
            /\ UNCHANGED completion
       ELSE /\ completion' = [completion EXCEPT ![c] = Some(r.value)]
            /\ pc' = [pc EXCEPT ![c] = "l125"]
            /\ UNCHANGED exception
    /\ UNCHANGED <<globals, input, messages, current_messages, new_list, sent,
                   assistant_reply_content, updated_messages, result,
                   round, previous>>

\* the exception of completion["choices"][0]["message"]["content"].strip(),
\* None when the expression has a value
ExtractError(v) ==
    IF "choices" \notin DOMAIN v THEN Some("KeyError")
    ELSE IF Len(v.choices) = 0 THEN Some("IndexError")
    ELSE IF "message" \notin DOMAIN v.choices[1] THEN Some("KeyError")
    ELSE IF "content" \notin DOMAIN v.choices[1].message THEN Some("KeyError")
    ELSE IF v.choices[1].message.content[1] # "str" THEN Some("AttributeError")
    ELSE None

\* the value of completion["choices"][0]["message"]["content"].strip()
ExtractReply(v) == Strip(v.choices[1].message.content[2])

\* lines 125-128 with an empty reply in the place of a missing one
ExtractWithDefault(c) ==
    /\ pc[c] = "l125"
    /\ LET v == completion[c][1]
       IN  assistant_reply_content' = [assistant_reply_content EXCEPT ![c] =
               Some(IF ExtractError(v) # None THEN <<>> ELSE ExtractReply(v))]
    /\ pc' = [pc EXCEPT ![c] = "l131"]
    /\ UNCHANGED <<globals, input, messages, current_messages, new_list, sent,
                   upstream, completion, updated_messages, result, exception,
                   round, previous>>

\* lines 125-128
Extract(c) ==
    /\ pc[c] = "l125"
    /\ LET v == completion[c][1]
       IN  IF ExtractError(v) # None
           THEN /\ exception' = [exception EXCEPT ![c] = ExtractError(v)]
                /\ pc' = [pc EXCEPT ![c] = "failed"]
                /\ UNCHANGED assistant_reply_content
           ELSE /\ assistant_reply_content' =
                       [assistant_reply_content EXCEPT ![c] = Some(ExtractReply(v))]
                /\ pc' = [pc EXCEPT ![c] = "l131"]
                /\ UNCHANGED exception
    /\ UNCHANGED <<globals, input, messages, current_messages, new_list, sent,
                   upstream, completion, updated_messages, result,
                   round, previous>>

\* lines 130-132 with a refusal left out of the history
AppendReplyUnlessRefusal(c) ==
    /\ pc[c] = "l131"
    /\ LET reply == assistant_reply_content[c][1]
           updated == IF reply = RefusalText
                      THEN CurrentMessages(c)
                      ELSE CurrentMessages(c) \o <<Turn("assistant", reply)>>
       IN  /\ updated_messages' = [updated_messages EXCEPT ![c] = Some(updated)]
           /\ result' = [result EXCEPT ![c] = Some(updated)]
    /\ pc' = [pc EXCEPT ![c] = "done"]
    /\ UNCHANGED <<globals, input, messages, current_messages, new_list, sent,
                   upstream, completion, assistant_reply_content, exception,
                   round, previous>>

\* lines 130-132
AppendReply(c) ==
    /\ pc[c] = "l131"
    /\ LET updated == CurrentMessages(c)
                        \o <<Turn("assistant", assistant_reply_content[c][1])>>
       IN  /\ updated_messages' = [updated_messages EXCEPT ![c] = Some(updated)]
           /\ result' = [result EXCEPT ![c] = Some(updated)]
    /\ pc' = [pc EXCEPT ![c] = "done"]
    /\ UNCHANGED <<globals, input, messages, current_messages, new_list, sent,
                   upstream, completion, assistant_reply_content, exception,
                   round, previous>>

-----------------------------------------------------------------------------
(* Specifications *)

\* one caller, any conversation, any response
Next ==
    \/ \E m \in Inputs : Call(1, m)
    \/ Normalize(1)
    \/ Request(1)
    \/ \E r \in Responses : Respond(1, r)
    \/ Extract(1)
    \/ AppendReply(1)

Spec == Init /\ [][Next]_vars

\* NumCalls callers at once, each calling again and again
ConcTexts == { <<"a">>, <<" ", "a">> }

ConcInputs ==
    { <<>>, <<Turn("user", <<"a">>)>>, <<Turn("system", <<"a">>)>>,
      <<Turn("system", <<"a">>), Turn("user", <<"a">>)>> }

ConcResponses ==
    { Raise("RateLimitError"), Return([choices |-> <<>>]) }
    \cup { Return(WithContent(StrContent(t))) : t \in ConcTexts }

NextConc ==
    \E c \in Calls :
        \/ \E m \in ConcInputs : Call(c, m)
        \/ \E m \in ConcInputs : CallAgain(c, m)
        \/ Normalize(c)
        \/ Request(c)
        \/ \E r \in ConcResponses : Respond(c, r)
        \/ Extract(c)
        \/ AppendReply(c)

SpecConc == Init /\ [][NextConc]_vars

\* one caller in a dialogue of up to MaxRounds rounds, which starts from an
\* empty conversation or from one whose first Turn is a user Turn
DialogueTexts == { <<"a">>, <<" ">> }

DialogueTurns == { Turn(r, t) : r \in Roles, t \in DialogueTexts }

DialogueStarts ==
    { m \in SeqsUpTo(DialogueTurns, MaxTurns) : m = <<>> \/ m[1].role = "user" }

DialogueResponses ==
    { Raise("APIConnectionError"), Return(WithContent(NoneContent)),
      Return(WithContent(StrContent(<<"a">>))),
      Return(WithContent(StrContent(<<"\n", "a", " ">>))) }

NextDialogue ==
    \/ \E m \in DialogueStarts : Call(1, m)
    \/ \E t \in DialogueTexts : FollowUp(1, t)
    \/ Normalize(1)
    \/ Request(1)
    \/ \E r \in DialogueResponses : Respond(1, r)
    \/ Extract(1)
    \/ AppendReply(1)

SpecDialogue == Init /\ [][NextDialogue]_vars

-----------------------------------------------------------------------------
(* Vocabulary of the properties *)

StartsWithSystem(m) == Len(m) > 0 /\ m[1].role = "system"

SystemTurn == Turn("system", InstructionText)

\* out is in with exactly one Turn, the system Turn, put in front
PromptInserted(in, out) ==
    /\ Len(out) = Len(in) + 1
    /\ out[1] = SystemTurn
    /\ \A i \in 1..Len(in) : out[i + 1] = in[i]

IsPrefix(p, s) == Len(p) <= Len(s) /\ \A i \in 1..Len(p) : s[i] = p[i]

Last(s) == s[Len(s)]

\* the conversation the Responder is to send for the input m
Normalized(m) == IF StartsWithSystem(m) THEN m ELSE <<SystemTurn>> \o m

Started(c) == pc[c] # "idle"
Requested(c) == pc[c] \in {"blocked", "l125", "l131", "done", "failed"}
Ended(c) == pc[c] \in {"done", "failed"}

Raised(c) == upstream[c] # None /\ upstream[c][1].raises
Returned(c) == upstream[c] # None /\ ~upstream[c][1].raises

\* the conversations of invocation c that left the function: sent or returned
Conversations(c) ==
    { sent[c][i].messages : i \in 1..Len(sent[c]) }
    \cup { result[c][i] : i \in 1..Len(result[c]) }

\* the response v has no reply text at choices[0].message.content
LacksContent(v) ==
    \/ v.choices = <<>>
    \/ "message" \notin DOMAIN v.choices[1]
    \/ "content" \notin DOMAIN v.choices[1].message
    \/ v.choices[1].message.content = NoneContent

\* the reply text of a response that has one
RawReply(c) == upstream[c][1].value.choices[1].message.content[2]

\* out is raw without its leading and trailing whitespace
StrippedOf(raw, out) ==
    \E i \in 0..Len(raw) : \E j \in 0..(Len(raw) - i) :
        /\ \A k \in 1..i : raw[k] \in Whitespace
        /\ \A k \in (Len(raw) - j + 1)..Len(raw) : raw[k] \in Whitespace
        /\ out = SubSeq(raw, i + 1, Len(raw) - j)
        /\ out # <<>> => out[1] \notin Whitespace /\ out[Len(out)] \notin Whitespace

SystemCount(m) == Cardinality({ i \in 1..Len(m) : m[i].role = "system" })

-----------------------------------------------------------------------------
(* Properties *)

\* C1: when the input is empty or does not start with a system Turn, the
\* conversation sent upstream, and the head of the result, is the input with
\* exactly one Turn {system, SYSTEM_PROMPT} inserted at position 0, the input
\* Turns following in their order, unchanged.
C1_PromptPrepended ==
    \A c \in Calls :
        (Started(c) /\ ~StartsWithSystem(input[c])) =>
            /\ Requested(c) => Len(sent[c]) >= 1
            /\ \A i \in 1..Len(sent[c]) : PromptInserted(input[c], sent[c][i].messages)
            /\ result[c] # None =>
                   /\ Len(result[c][1]) > Len(input[c])
                   /\ PromptInserted(input[c], SubSeq(result[c][1], 1, Len(input[c]) + 1))

C1_Witness ==
    /\ pc[1] = "done"
    /\ Len(input[1]) >= 1
    /\ input[1][1].role = "user"
    /\ result[1][1][1] = SystemTurn

\* C2: when the input starts with a system Turn, what is sent upstream is
\* the input, unchanged and of the same length, its first Turn has the
\* caller's text, and the prompt is neither inserted nor substituted.
C2_CallerSystemTurnKept ==
    \A c \in Calls :
        (Started(c) /\ StartsWithSystem(input[c])) =>
            /\ Requested(c) => Len(sent[c]) >= 1
            /\ \A i \in 1..Len(sent[c]) :
                   /\ sent[c][i].messages = input[c]
                   /\ sent[c][i].messages[1].content = input[c][1].content
            /\ messages[c] = input[c]
            /\ result[c] # None =>
                   /\ IsPrefix(input[c], result[c][1])
                   /\ result[c][1][1].content = input[c][1].content

C2_Witness ==
    /\ pc[1] = "done"
    /\ StartsWithSystem(input[1])
    /\ input[1][1].content # InstructionText
    /\ Len(input[1]) >= 2

\* C3: a successful invocation returns the normalized input followed by
\* exactly one Turn, of role assistant, whatever the reply says: the
\* refusal text is appended as any other.
C3_OneAssistantTurnAppended ==
    \A c \in Calls :
        pc[c] = "done" =>
            /\ result[c] # None
            /\ Len(result[c][1]) = Len(Normalized(input[c])) + 1
            /\ IsPrefix(Normalized(input[c]), result[c][1])
            /\ Last(result[c][1]).role = "assistant"
            /\ RawReply(c) = RefusalText => Last(result[c][1]).content = RefusalText

C3_Witness ==
    /\ pc[1] = "done"
    /\ RawReply(1) = RefusalText
    /\ Last(result[1][1]) = Turn("assistant", RefusalText)

\* C4: the text of the appended assistant Turn is the upstream text without
\* its leading and trailing whitespace, interior whitespace kept; it neither
\* begins nor ends with a whitespace character.
C4_ReplyStripped ==
    \A c \in Calls :
        pc[c] = "done" => StrippedOf(RawReply(c), Last(result[c][1]).content)

C4_Witness ==
    /\ pc[1] = "done"
    /\ Len(RawReply(1)) = 3
    /\ RawReply(1)[1] \in Whitespace
    /\ RawReply(1)[3] \in Whitespace
    /\ Last(result[1][1]).content = <<"a">>

\* C5: when the completion capability raises, the invocation ends with that
\* failure, returns nothing, builds no assistant Turn and leaves the
\* caller's conversation as it was.
C5_UpstreamFailurePropagates ==
    \A c \in Calls :
        Raised(c) =>
            /\ pc[c] = "failed"
            /\ exception[c] = Some(upstream[c][1].error)
            /\ result[c] = None
            /\ updated_messages[c] = None
            /\ assistant_reply_content[c] = None
            /\ messages[c] = input[c]

C5_Witness ==
    /\ Raised(1)
    /\ pc[1] = "failed"
    /\ Len(input[1]) >= 1

\* C6: when the upstream response lacks the reply content, the invocation
\* fails and returns nothing; a returned conversation always ends with a
\* Turn made from content the response had.
C6_MalformedResponseFails ==
    \A c \in Calls :
        /\ (Returned(c) /\ LacksContent(upstream[c][1].value) /\ pc[c] # "l125") =>
               /\ pc[c] = "failed"
               /\ exception[c] # None
               /\ result[c] = None
               /\ updated_messages[c] = None
        /\ pc[c] = "done" => (Returned(c) /\ ~LacksContent(upstream[c][1].value))

C6_Witness ==
    /\ Returned(1)
    /\ upstream[1][1].value = WithContent(NoneContent)
    /\ pc[1] = "failed"

\* C7: an invocation issues exactly one request, whether it succeeds or
\* fails; the request is issued after normalization and before any Turn is
\* appended, and carries the whole normalized conversation and MODEL_NAME.
C7_ExactlyOneRequest ==
    \A c \in Calls :
        /\ ~Requested(c) => sent[c] = <<>>
        /\ Requested(c) =>
               /\ Len(sent[c]) = 1
               /\ sent[c][1].model = MODEL_NAME
               /\ sent[c][1].messages = Normalized(input[c])
        /\ pc[c] = "blocked" =>
               /\ current_messages[c] # "unbound"
               /\ assistant_reply_content[c] = None
               /\ updated_messages[c] = None
               /\ result[c] = None

C7_Witness ==
    /\ pc[1] = "failed"
    /\ Raised(1)
    /\ Len(sent[1]) = 1
    /\ Len(sent[1][1].messages) = 2

\* C8, as claimed: every conversation sent or returned, for any input, has
\* at most one system Turn, and that Turn is at position 0.
C8_Original ==
    \A c \in Calls : \A m \in Conversations(c) :
        \A i \in 1..Len(m) : m[i].role = "system" => i = 1

\* C8, amended: for any input in which no Turn after the first is a system
\* Turn, every conversation sent or returned has at most one system Turn,
\* and that Turn is at position 0.
C8_Amended ==
    \A c \in Calls :
        (\A i \in 2..Len(input[c]) : input[c][i].role # "system") =>
            \A m \in Conversations(c) :
                \A i \in 1..Len(m) : m[i].role = "system" => i = 1

C8_Witness ==
    /\ pc[1] = "done"
    /\ Len(input[1]) >= 2
    /\ \A i \in 2..Len(input[1]) : input[1][i].role # "system"
    /\ SystemCount(result[1][1]) = 1

\* C9: invocations are independent: SYSTEM_PROMPT and MODEL_NAME are changed
\* by no step, and two ended invocations with the same input and the same
\* upstream reply ended the same way with the same result, whatever ran
\* before them or between their steps.
SameOutcome(c, d) ==
    /\ pc[c] = pc[d]
    /\ result[c] = result[d]
    /\ exception[c] = exception[d]
    /\ sent[c] = sent[d]

Determined ==
    \A c, d \in Calls :
        (Ended(c) /\ Ended(d) /\ input[c] = input[d] /\ upstream[c] = upstream[d])
            => SameOutcome(c, d)

C9_Independent ==
    [][SYSTEM_PROMPT' = SYSTEM_PROMPT /\ MODEL_NAME' = MODEL_NAME /\ Determined']_vars

C9_Witness ==
    /\ pc[1] = "done"
    /\ pc[2] = "done"
    /\ input[1] = input[2]
    /\ input[1] = <<>>
    /\ upstream[1] = upstream[2]
    /\ result[1] = result[2]

\* C10: in a dialogue that starts from an empty or user-first conversation,
\* the prompt is inserted in the first round only and never duplicated; from
\* the second round on the output is the previous output, unmodified,
\* followed by the new user Turn and one assistant Turn.
C10_DialogueGrowsByAppending ==
    \A c \in Calls :
        pc[c] = "done" =>
            /\ result[c][1][1] = SystemTurn
            /\ round[c] = 1 =>
                   /\ current_messages[c] = "new"
                   /\ Len(result[c][1]) = Len(input[c]) + 2
                   /\ SystemCount(result[c][1]) = SystemCount(input[c]) + 1
            /\ round[c] >= 2 =>
                   /\ current_messages[c] = "messages"
                   /\ IsPrefix(previous[c], result[c][1])
                   /\ Len(result[c][1]) = Len(previous[c]) + 2
                   /\ result[c][1][Len(previous[c]) + 1].role = "user"
                   /\ Last(result[c][1]).role = "assistant"
                   /\ SystemCount(result[c][1]) = SystemCount(previous[c])

C10_Witness ==
    /\ pc[1] = "done"
    /\ round[1] >= 3
    /\ Len(result[1][1]) >= 6

====
